---- MODULE Spec2Model ----
(***************************************************************************)
(* Model of assets/js/main.js (class LCGlobalEnterprises): the page        *)
(* behaviour controller of the LC Global Enterprises site.  The state is   *)
(* the part of the DOM and of the closures' variables that the handlers    *)
(* read and write; there is one action per browser event or scheduled      *)
(* callback.  The navigation elements may be absent from the page; every   *)
(* other expected element is present.                                      *)
(***************************************************************************)
EXTENDS Integers, Sequences, FiniteSets, TLC

VARIABLES
    \* ---- navigation (setupMobileNavigation, handleResize, setupSmoothScrolling)
    ariaExpanded,     \* navToggle's aria-expanded attribute; "null" when absent
    menuActive,       \* navMenu.classList.contains('active')
    bodyOverflow,     \* document.body.style.overflow
    navWrites,        \* menu properties written while handling the last event
    innerWidth,       \* window.innerWidth
    resizeTimeout,    \* closure variable resizeTimeout (0: undefined)
    resizeTimers,     \* ids of the pending resize timers
    defaultPrevented, \* the last event had preventDefault() called on it
    scrollToCalls,    \* window.scrollTo() positions requested by the last event
    navEvent,         \* the last navigation event handled
    navTarget,        \* target of the last click ("none" otherwise)
    navLayout,        \* target.offsetTop and header.offsetHeight at the last click
    present,          \* the navigation elements the page has
    threw,            \* a listener of the last navigation event raised an error
    \* ---- header scroll effect (setupHeaderScroll)
    scrollY,          \* window.scrollY
    lastScrollY,      \* closure variable lastScrollY
    ticking,          \* closure variable ticking
    headerScrolled,   \* header.classList.contains('scrolled')
    headerTransform,  \* header.style.transform
    rafQueue,         \* pending requestAnimationFrame callbacks, in request order
    frameRuns,        \* callbacks run by the last animation frame, per kind
    frameEvent,       \* the last scroll/frame/pointer event handled
    \* ---- parallax (setupParallaxEffect)
    mouseX,           \* closure variable mouseX, times HeroSize
    mouseY,           \* closure variable mouseY, times HeroSize
    rafId,            \* closure variable rafId (0: null)
    orbTransform,     \* style.transform of each .floating-orb
    cubeTransform,    \* style.transform of each .floating-cube
    pointerInside,    \* the pointer is over the hero (last of enter/leave)
    \* ---- contact form (setupFormHandling)
    fieldValue,       \* value of each required field
    ariaInvalid,      \* aria-invalid attribute of each field; "null" when absent
    errorText,        \* textContent of each field's .error-message
    errorOpacity,     \* style.opacity of each field's .error-message
    btnLoading,       \* submitBtn.classList.contains('loading')
    btnDisabled,      \* submitBtn.disabled
    statusText,       \* formStatus.textContent
    statusClass,      \* formStatus.className
    inflight,         \* POSTs issued and not yet settled
    statusTimers,     \* pending 5 s status-clear timers
    handlerRejected,  \* a handleFormSubmission() promise was rejected
    formEvent,        \* the last form event handled
    formField,        \* the field the last blur or input event was on (0: none)
    \* ---- reveal on scroll (setupScrollAnimations)
    elOpacity,        \* style.opacity of each animated element
    elTransform,      \* style.transform of each animated element
    observed,         \* targets the IntersectionObserver observes
    inView,           \* the element intersects the observer's root now
    prevIntersecting, \* the observer's last computed isIntersecting per target
    ioQueue,          \* the observer's queued entries
    revealCount,      \* times the callback has written each element's style
    \* ---- active navigation link (setupIntersectionObserver)
    linkActive,       \* each .nav-link's classList.contains('active')
    secInView,        \* the section intersects the observer's band now
    secPrev,          \* the observer's last computed isIntersecting per section
    secQueue          \* the observer's queued entries

navVars == <<ariaExpanded, menuActive, bodyOverflow, navWrites, innerWidth,
             resizeTimeout, resizeTimers, defaultPrevented, scrollToCalls,
             navEvent, navTarget, navLayout, present, threw>>
headerVars == <<scrollY, lastScrollY, ticking, headerScrolled, headerTransform>>
rafVars == <<rafQueue, frameRuns, frameEvent>>

parallaxVars == <<mouseX, mouseY, rafId, orbTransform, cubeTransform, pointerInside>>

formVars == <<fieldValue, ariaInvalid, errorText, errorOpacity, btnLoading,
              btnDisabled, statusText, statusClass, inflight, statusTimers,
              handlerRejected, formEvent, formField>>
revealVars == <<elOpacity, elTransform, observed, inView, prevIntersecting,
                ioQueue, revealCount>>

sectionVars == <<linkActive, secInView, secPrev, secQueue>>

vars == <<navVars, headerVars, rafVars, parallaxVars, formVars, revealVars,
          sectionVars>>

(***************************************************************************)
(* Navigation                                                              *)
(***************************************************************************)

\* window.innerWidth above which handleResize closes the menu
MobileBreakpoint == 768

\* margin subtracted from the scroll target
ScrollMargin == 20

\* viewport widths tried: up to MaxWidthOver pixels above the breakpoint
MaxWidthOver == 1
Widths == MobileBreakpoint .. (MobileBreakpoint + MaxWidthOver)

\* layout values tried for target.offsetTop and header.offsetHeight
MaxLayoutSteps == 1
OffsetTops == {400 * k : k \in 0 .. MaxLayoutSteps}
HeaderHeights == {80 * k : k \in 0 .. MaxLayoutSteps}

MenuProps == {"aria-expanded", "class", "overflow"}

\* the elements of the page the navigation handlers look up
NavElements == {"navToggle", "navMenu", "header"}

\* setupMobileNavigation and setupFocusManagement register their listeners
\* only when both navToggle and navMenu exist.
Registered == {"navToggle", "navMenu"} \subseteq present

\* The menu as the handlers see it, with the properties written so far and
\* whether a listener has raised an error.
MenuNow ==
    [aria |-> ariaExpanded, active |-> menuActive, overflow |-> bodyOverflow,
     writes |-> {}, threw |-> FALSE]

toggleMobileMenuNoLock(m) ==
    LET isExpanded == m.aria = "true"
    IN  [m EXCEPT !.aria = IF isExpanded THEN "false" ELSE "true",
                  !.active = ~m.active,
                  !.writes = @ \cup {"aria-expanded", "class"}]

toggleMobileMenu(m) ==
    LET isExpanded == m.aria = "true"
        active == ~m.active
    IN  [m EXCEPT !.aria = IF isExpanded THEN "false" ELSE "true",
                  !.active = active,
                  !.overflow = IF active THEN "hidden" ELSE "",
                  !.writes = @ \cup MenuProps]

closeMobileMenuKeepLock(m) ==
    IF "navToggle" \notin present THEN [m EXCEPT !.threw = TRUE]
    ELSE [m EXCEPT !.aria = "false", !.active = FALSE,
                   !.writes = @ \cup {"aria-expanded", "class"}]

\* closeMobileMenu(toggle, menu); toggle is null when navToggle is absent and
\* toggle.setAttribute then raises a TypeError before anything is written.
closeMobileMenu(m) ==
    IF "navToggle" \notin present THEN [m EXCEPT !.threw = TRUE]
    ELSE [m EXCEPT !.aria = "false", !.active = FALSE, !.overflow = "",
                   !.writes = @ \cup MenuProps]

\* A click target: inside navToggle, or elsewhere; elsewhere it may be (in) a
\* .nav-link, lie inside navMenu, and be (in) an anchor whose href is
\* "#" (bare), "#missing" (no such element), "#section" (an element of the
\* page) or "other" (no anchor, or an href not starting with #).
Hrefs == {"other", "#", "#missing", "#section"}

ClickTargets ==
    {[toggle |-> TRUE, navLink |-> FALSE, inMenu |-> FALSE, href |-> "other"]}
    \cup [toggle : {FALSE}, navLink : BOOLEAN, inMenu : BOOLEAN, href : Hrefs]

NoTarget == [toggle |-> FALSE, navLink |-> FALSE, inMenu |-> FALSE, href |-> "none"]

NoLayout == [offsetTop |-> 0, headerHeight |-> 0]

\* The listener of setupSmoothScrolling on an a[href^="#"]: the result for the
\* menu, whether preventDefault() was called, and the scrollTo() requests.
AnchorProceedsWithoutTarget(href) == href \in {"#section", "#missing"}

AnchorProceeds(href) == href = "#section"

\* navMenu.classList raises a TypeError when navMenu is absent.
anchorClickMenu(m, href) ==
    IF ~AnchorProceeds(href) THEN m
    ELSE IF "navMenu" \notin present THEN [m EXCEPT !.threw = TRUE]
    ELSE IF m.active THEN closeMobileMenu(m)
    ELSE m

\* header ? header.offsetHeight : 0
headerHeightRead(h) == IF "header" \in present THEN h ELSE 0

targetPosition(offsetTop, headerHeight) == offsetTop - headerHeight - ScrollMargin

\* The anchor listener's scrollTo() requests; before is the menu when the
\* listener starts, after the menu when its menu step is done or has raised.
anchorScrollTo(before, after, href, offsetTop, h) ==
    IF AnchorProceeds(href) /\ (after.threw => before.threw)
    THEN <<targetPosition(offsetTop, headerHeightRead(h))>>
    ELSE <<>>

\* The click listeners of navLinks.forEach (unguarded close).
navLinkClick(m) == closeMobileMenu(m)

\* The document click listener: close on a click outside toggle and menu.
documentClick(m, t) ==
    IF ~t.inMenu /\ ~t.toggle /\ m.active THEN closeMobileMenu(m) ELSE m

\* Both document keydown listeners (setupMobileNavigation, then
\* setupKeyboardNavigation).
escapeKeydown(m, key) ==
    LET m1 == IF Registered /\ key = "Escape" /\ m.active THEN closeMobileMenu(m) ELSE m
    IN  IF key = "Escape" /\ "navMenu" \in present /\ m1.active
        THEN closeMobileMenu(m1) ELSE m1

SetMenu(m) ==
    /\ ariaExpanded' = m.aria
    /\ menuActive' = m.active
    /\ bodyOverflow' = m.overflow
    /\ navWrites' = m.writes
    /\ threw' = m.threw

\* All listeners a click reaches, in registration and bubbling order.  An
\* error raised by one listener does not keep the next from running.
Click(t, offsetTop, headerHeight) ==
    LET toggled == t.toggle /\ Registered
        m1 == IF toggled THEN toggleMobileMenu(MenuNow)
              ELSE IF t.navLink /\ Registered THEN navLinkClick(MenuNow) ELSE MenuNow
        m2 == IF t.toggle THEN m1 ELSE anchorClickMenu(m1, t.href)
        \* e.stopPropagation() in the toggle's listener: document is not reached
        m3 == IF t.toggle \/ ~Registered THEN m2 ELSE documentClick(m2, t)
    IN  /\ SetMenu(m3)
        /\ defaultPrevented' = (~t.toggle /\ AnchorProceeds(t.href))
        /\ scrollToCalls' =
              IF t.toggle THEN <<>>
              ELSE anchorScrollTo(m1, m2, t.href, offsetTop, headerHeight)
        /\ navLayout' = [offsetTop |-> offsetTop, headerHeight |-> headerHeight]
        /\ navEvent' = "click"
        /\ navTarget' = t
        /\ UNCHANGED <<innerWidth, resizeTimeout, resizeTimers, present>>

ClickAny ==
    \E t \in ClickTargets, o \in OffsetTops, h \in HeaderHeights :
        /\ t.toggle => "navToggle" \in present
        /\ t.inMenu => "navMenu" \in present
        /\ (~AnchorProceeds(t.href) \/ t.toggle) =>
              (o = 0 /\ h = 0)   \* layout is read by the anchor listener only
        /\ "header" \notin present => h = 0
        /\ Click(t, o, h)

Keys == {"Escape", "Enter", " ", "a"}

\* keydown: on the toggle, Enter and space call navToggle.click(); then the
\* document listeners run.
KeyDown(key, onToggle) ==
    LET activates == onToggle /\ Registered /\ key \in {"Enter", " "}
        m1 == IF activates THEN toggleMobileMenu(MenuNow) ELSE MenuNow
        m2 == escapeKeydown(m1, key)
    IN  /\ SetMenu(m2)
        /\ defaultPrevented' = activates
        /\ scrollToCalls' = <<>>
        /\ navLayout' = NoLayout
        /\ navEvent' = IF key = "Escape" THEN "escape"
                       ELSE IF activates THEN "toggleKey" ELSE "key"
        /\ navTarget' = NoTarget
        /\ UNCHANGED <<innerWidth, resizeTimeout, resizeTimers, present>>

KeyDownAny ==
    \E key \in Keys, onToggle \in BOOLEAN :
        /\ onToggle => "navToggle" \in present
        /\ KeyDown(key, onToggle)

\* setTimeout's handle: an id no pending or remembered timer has.
FreshTimer(used) == CHOOSE i \in 1 .. (Cardinality(used) + 1) : i \notin used

clearTimeoutIgnored(timers, id) == timers

\* clearTimeout(id): the timer, if still pending, will not fire.
clearTimeout(timers, id) == timers \ {id}

\* resize listener: clearTimeout(resizeTimeout); resizeTimeout = setTimeout(...)
Resize(w) ==
    LET cleared == clearTimeout(resizeTimers, resizeTimeout)
        id == FreshTimer(cleared \cup {resizeTimeout})
    IN  /\ innerWidth' = w
        /\ resizeTimers' = cleared \cup {id}
        /\ resizeTimeout' = id
        /\ navEvent' = "resize"
        /\ navTarget' = NoTarget
        /\ navLayout' = NoLayout
        /\ navWrites' = {}
        /\ threw' = FALSE
        /\ defaultPrevented' = FALSE
        /\ scrollToCalls' = <<>>
        /\ UNCHANGED <<ariaExpanded, menuActive, bodyOverflow, present>>

ResizeAny == \E w \in Widths : Resize(w)

handleResize(m, width) ==
    IF width > MobileBreakpoint /\ "navMenu" \in present THEN closeMobileMenu(m) ELSE m

\* The 250 ms timer fires: handleResize().
ResizeTimerFire ==
    \E id \in resizeTimers :
        /\ resizeTimers' = resizeTimers \ {id}
        /\ SetMenu(handleResize(MenuNow, innerWidth))
        /\ navEvent' = "resizeTimer"
        /\ navTarget' = NoTarget
        /\ navLayout' = NoLayout
        /\ defaultPrevented' = FALSE
        /\ scrollToCalls' = <<>>
        /\ UNCHANGED <<innerWidth, resizeTimeout, present>>

\* After construction, on a page that has the elements of `elements`.  The
\* markup may or may not carry aria-expanded="false" on the toggle.
NavInitOn(elements, arias, widths) ==
    /\ present \in elements
    /\ ariaExpanded \in (IF "navToggle" \in present THEN arias ELSE {"null"})
    /\ menuActive = FALSE
    /\ bodyOverflow = ""
    /\ navWrites = {}
    /\ threw = FALSE
    /\ innerWidth \in widths
    /\ resizeTimeout = 0
    /\ resizeTimers = {}
    /\ defaultPrevented = FALSE
    /\ scrollToCalls = <<>>
    /\ navLayout = NoLayout
    /\ navEvent = "init"
    /\ navTarget = NoTarget

NavInitIn(arias, widths) == NavInitOn({NavElements}, arias, widths)

(***************************************************************************)
(* Animation frames: header scroll effect and parallax                     *)
(***************************************************************************)

\* window.scrollY above which the header is "scrolled"
ScrollThreshold == 100

\* scroll offsets tried: the top of the page and the offsets around the threshold
MaxScrollOver == 2
ScrollPositions == {0} \cup ((ScrollThreshold - 1) .. (ScrollThreshold + MaxScrollOver))

\* the hero's getBoundingClientRect() width and height, and the elements moved
HeroSize == 2
NumOrbs == 2
NumCubes == 1
Orbs == 1 .. NumOrbs
Cubes == 1 .. NumCubes

NoTransform == <<>>

RafIds(q) == {q[i].id : i \in DOMAIN q}

\* requestAnimationFrame's handle: an id no pending or remembered request has.
FreshRaf(used) == CHOOSE i \in 1 .. (Cardinality(used) + 1) : i \notin used

Pending(q, cb) == {i \in DOMAIN q : q[i].cb = cb}

\* cancelAnimationFrame(id)
RECURSIVE cancelAnimationFrame(_, _)
cancelAnimationFrame(q, id) ==
    IF q = <<>> THEN <<>>
    ELSE IF Head(q).id = id THEN cancelAnimationFrame(Tail(q), id)
    ELSE <<Head(q)>> \o cancelAnimationFrame(Tail(q), id)

\* The closures' state while a frame runs its callbacks; queue holds the
\* requests made during the frame, which run in the next one.
FrameNow ==
    [scrolled |-> headerScrolled, transform |-> headerTransform,
     lastY |-> lastScrollY, ticking |-> ticking,
     orb |-> orbTransform, cube |-> cubeTransform, rafId |-> rafId,
     queue |-> <<>>, hruns |-> 0, pruns |-> 0]

updateHeaderAtThreshold(f) ==
    [f EXCEPT !.scrolled = scrollY >= ScrollThreshold,
              !.transform = IF scrollY > f.lastY /\ scrollY > ScrollThreshold
                            THEN "translateY(-100%)" ELSE "translateY(0)",
              !.lastY = scrollY,
              !.ticking = FALSE,
              !.hruns = @ + 1]

updateHeaderIgnoringDirection(f) ==
    [f EXCEPT !.scrolled = scrollY > ScrollThreshold,
              !.transform = IF scrollY > ScrollThreshold
                            THEN "translateY(-100%)" ELSE "translateY(0)",
              !.lastY = scrollY,
              !.ticking = FALSE,
              !.hruns = @ + 1]

updateHeader(f) ==
    [f EXCEPT !.scrolled = scrollY > ScrollThreshold,
              !.transform = IF scrollY > f.lastY /\ scrollY > ScrollThreshold
                            THEN "translateY(-100%)" ELSE "translateY(0)",
              !.lastY = scrollY,
              !.ticking = FALSE,
              !.hruns = @ + 1]

\* orb index i (1-based): speed (i - 1 + 1) * 0.5; the translation is kept in
\* units of 1 / (2 * HeroSize) px.  cube index i: speed i * 2; the rotation is
\* kept in units of 1 / HeroSize deg.
orbStyle(i) == <<"translate", mouseX * i, mouseY * i>>
cubeStyle(i) == <<"rotate", mouseY * i * 2, mouseX * i * 2>>

updateParallax(f, used) ==
    LET id == FreshRaf(used \cup RafIds(f.queue) \cup {f.rafId})
    IN  [f EXCEPT !.orb = [i \in Orbs |-> orbStyle(i)],
                  !.cube = [i \in Cubes |-> cubeStyle(i)],
                  !.queue = Append(@, [id |-> id, cb |-> "updateParallax"]),
                  !.rafId = id,
                  !.pruns = @ + 1]

RECURSIVE RunCallbacks(_, _, _)
RunCallbacks(q, f, used) ==
    IF q = <<>> THEN f
    ELSE LET g == IF Head(q).cb = "updateHeader" THEN updateHeader(f)
                  ELSE updateParallax(f, used)
         IN  RunCallbacks(Tail(q), g, used)

\* One animation frame: every callback pending at its start runs, in order.
AnimationFrame ==
    /\ rafQueue # <<>>
    /\ LET f == RunCallbacks(rafQueue, FrameNow, RafIds(rafQueue))
       IN  /\ headerScrolled' = f.scrolled
           /\ headerTransform' = f.transform
           /\ lastScrollY' = f.lastY
           /\ ticking' = f.ticking
           /\ orbTransform' = f.orb
           /\ cubeTransform' = f.cube
           /\ rafId' = f.rafId
           /\ rafQueue' = f.queue
           /\ frameRuns' = [header |-> f.hruns, parallax |-> f.pruns]
    /\ frameEvent' = "frame"
    /\ UNCHANGED <<scrollY, mouseX, mouseY, pointerInside>>

onScrollUnguarded(q, t) ==
    [queue |-> Append(q, [id |-> FreshRaf(RafIds(q) \cup {rafId}), cb |-> "updateHeader"]),
     ticking |-> TRUE]

\* onScroll: request a frame unless one is pending.
onScroll(q, t) ==
    IF ~t
    THEN [queue |-> Append(q, [id |-> FreshRaf(RafIds(q) \cup {rafId}), cb |-> "updateHeader"]),
          ticking |-> TRUE]
    ELSE [queue |-> q, ticking |-> t]

\* The page scrolls to offset y and the scroll event is dispatched.
Scroll(y) ==
    LET r == onScroll(rafQueue, ticking)
    IN  /\ scrollY' = y
        /\ rafQueue' = r.queue
        /\ ticking' = r.ticking
        /\ frameEvent' = "scroll"
        /\ UNCHANGED <<lastScrollY, headerScrolled, headerTransform, frameRuns,
                       parallaxVars>>

ScrollAny == \E y \in ScrollPositions : Scroll(y)

\* mousemove on the hero: dx, dy are clientX - left and clientY - top.
\* mouseX = ((dx / width) - 0.5) * 2, kept times HeroSize.
handleMouseMove(dx, dy) ==
    /\ mouseX' = 2 * dx - HeroSize
    /\ mouseY' = 2 * dy - HeroSize
    /\ frameEvent' = "mousemove"
    /\ UNCHANGED <<headerVars, rafQueue, frameRuns, rafId, orbTransform,
                   cubeTransform, pointerInside>>

MouseMoveAny == \E dx \in 0 .. HeroSize, dy \in 0 .. HeroSize : handleMouseMove(dx, dy)

\* mouseenter listener: start the loop unless it is running.
mouseEnter(q, id) ==
    IF id = 0
    THEN LET n == FreshRaf(RafIds(q) \cup {id})
         IN  [queue |-> Append(q, [id |-> n, cb |-> "updateParallax"]), rafId |-> n]
    ELSE [queue |-> q, rafId |-> id]

MouseEnter ==
    LET r == mouseEnter(rafQueue, rafId)
    IN  /\ rafQueue' = r.queue
        /\ rafId' = r.rafId
        /\ pointerInside' = TRUE
        /\ frameEvent' = "mouseenter"
        /\ UNCHANGED <<headerVars, frameRuns, mouseX, mouseY, orbTransform,
                       cubeTransform>>

mouseLeaveNoCancel(q, id) == [queue |-> q, rafId |-> 0]

\* mouseleave listener, first part: cancel the pending callback.
mouseLeave(q, id) ==
    IF id # 0 THEN [queue |-> cancelAnimationFrame(q, id), rafId |-> 0]
    ELSE [queue |-> q, rafId |-> id]

MouseLeave ==
    LET r == mouseLeave(rafQueue, rafId)
    IN  /\ rafQueue' = r.queue
        /\ rafId' = r.rafId
        /\ orbTransform' = [i \in Orbs |-> NoTransform]
        /\ cubeTransform' = [i \in Cubes |-> NoTransform]
        /\ pointerInside' = FALSE
        /\ frameEvent' = "mouseleave"
        /\ UNCHANGED <<headerVars, frameRuns, mouseX, mouseY>>

\* After construction: lastScrollY = window.scrollY, wherever the page is.
FrameInitIn(positions) ==
    /\ scrollY \in positions
    /\ lastScrollY = scrollY
    /\ ticking = FALSE
    /\ headerScrolled = FALSE
    /\ headerTransform = ""
    /\ rafQueue = <<>>
    /\ frameRuns = [header |-> 0, parallax |-> 0]
    /\ frameEvent = "init"
    /\ mouseX = 0
    /\ mouseY = 0
    /\ rafId = 0
    /\ orbTransform = [i \in Orbs |-> NoTransform]
    /\ cubeTransform = [i \in Cubes |-> NoTransform]
    /\ pointerInside = FALSE

(***************************************************************************)
(* Contact form                                                            *)
(***************************************************************************)

\* required fields of the form: 1 is a text field, 2 an email field, 3 a url
\* field, and so on in turn
NumFields == 2
Fields == 1 .. NumFields
FieldType(i) == CASE i % 3 = 1 -> "text" [] i % 3 = 2 -> "email" [] OTHER -> "url"

\* field values tried: empty, not of the field's type (any text is of type
\* text), and of the field's type
Values == {"", "bad", "good"}

\* submissions in flight plus status timers pending, at most
MaxPending == 2

MsgRequired == "This field is required"
MsgEmail == "Please enter a valid email address"
MsgFixErrors == "Please fix the errors above"
MsgSuccess == "Thank you! Your message has been sent successfully. We will contact you shortly."
MsgFailure == "Sorry, there was an error sending your message. Please try again or email us directly at libertyengetelo@gmail.com."

\* field.validity, as the browser computes it for a required field
valueMissing(v) == v = ""
typeMismatch(type, v) == v = "bad" /\ type # "text"
validityValid(type, v) == ~valueMissing(v) /\ ~typeMismatch(type, v)

FieldNow(i) ==
    [aria |-> ariaInvalid[i], text |-> errorText[i], opacity |-> errorOpacity[i]]

showFieldError(fs, message) ==
    [aria |-> "true", text |-> message, opacity |-> "1"]

clearFieldError(fs) ==
    [aria |-> "false", text |-> fs.text, opacity |-> "0"]

validationMessage(type, v) ==
    IF valueMissing(v) THEN MsgRequired
    ELSE IF typeMismatch(type, v) /\ type = "email" THEN MsgEmail
    ELSE ""

validateField(fs, type, v) ==
    IF ~validityValid(type, v) THEN showFieldError(fs, validationMessage(type, v))
    ELSE clearFieldError(fs)

SetField(i, fs) ==
    /\ ariaInvalid' = [ariaInvalid EXCEPT ![i] = fs.aria]
    /\ errorText' = [errorText EXCEPT ![i] = fs.text]
    /\ errorOpacity' = [errorOpacity EXCEPT ![i] = fs.opacity]

Blur(i) ==
    /\ SetField(i, validateField(FieldNow(i), FieldType(i), fieldValue[i]))
    /\ formEvent' = "blur"
    /\ formField' = i
    /\ UNCHANGED <<fieldValue, btnLoading, btnDisabled, statusText, statusClass,
                   inflight, statusTimers, handlerRejected>>

BlurAny == \E i \in Fields : Blur(i)

inputListenerValidating(fs, type, v) == validateField(fs, type, v)

\* The input listener of a required field whose value has become v.
inputListener(fs, type, v) == clearFieldError(fs)

\* The user edits field i to value v: the input listener clears the error.
Input(i, v) ==
    /\ v # fieldValue[i]
    /\ fieldValue' = [fieldValue EXCEPT ![i] = v]
    /\ SetField(i, inputListener(FieldNow(i), FieldType(i), v))
    /\ formEvent' = "input"
    /\ formField' = i
    /\ UNCHANGED <<btnLoading, btnDisabled, statusText, statusClass, inflight,
                   statusTimers, handlerRejected>>

InputAny == \E i \in Fields, v \in Values : Input(i, v)

StatusNow == [text |-> statusText, class |-> statusClass, timers |-> statusTimers]

showFormStatusAlwaysTimed(st, message, type) ==
    [text |-> message,
     class |-> IF type = "success" THEN "form-status success" ELSE "form-status error",
     timers |-> st.timers + 1]

showFormStatus(st, message, type) ==
    [text |-> message,
     class |-> IF type = "success" THEN "form-status success" ELSE "form-status error",
     timers |-> IF type = "success" THEN st.timers + 1 ELSE st.timers]

SetStatus(st) ==
    /\ statusText' = st.text
    /\ statusClass' = st.class
    /\ statusTimers' = st.timers

setFormLoading(loading) == [loading |-> loading, disabled |-> loading]

\* fields.forEach(...) of handleFormSubmission validates field i whatever the
\* fields before it were.
SubmitValidatesUntilInvalid(i) ==
    \A j \in 1 .. (i - 1) : validityValid(FieldType(j), fieldValue[j])

SubmitValidates(i) == TRUE

\* handleFormSubmission after validation passed or failed: what it does before
\* its first await.
submitPlan(isValid) ==
    [post |-> isValid, loading |-> isValid, status |-> ~isValid]

\* submit event: handleFormSubmission up to the await of fetch().
Submit ==
    LET isValid == \A i \in Fields :
                      SubmitValidates(i) => validityValid(FieldType(i), fieldValue[i])
        plan == submitPlan(isValid)
        after(i) == IF SubmitValidates(i)
                    THEN validateField(FieldNow(i), FieldType(i), fieldValue[i])
                    ELSE FieldNow(i)
        btn == setFormLoading(TRUE)
    IN  /\ plan.post => inflight + statusTimers < MaxPending
        /\ ariaInvalid' = [i \in Fields |-> after(i).aria]
        /\ errorText' = [i \in Fields |-> after(i).text]
        /\ errorOpacity' = [i \in Fields |-> after(i).opacity]
        /\ IF plan.status
           THEN SetStatus(showFormStatus(StatusNow, MsgFixErrors, "error"))
           ELSE UNCHANGED <<statusText, statusClass, statusTimers>>
        /\ IF plan.loading
           THEN btnLoading' = btn.loading /\ btnDisabled' = btn.disabled
           ELSE UNCHANGED <<btnLoading, btnDisabled>>
        /\ inflight' = IF plan.post THEN inflight + 1 ELSE inflight
        /\ formEvent' = "submit"
        /\ formField' = 0
        /\ UNCHANGED <<fieldValue, handlerRejected>>

Outcomes == {"2xx", "non2xx", "throw"}

\* handleFormSubmission after the await: try / catch / finally.
\* status: the status shown; reset: form.reset() ran; posts: fetch() calls
\* made; cleanup: setFormLoading(submitBtn, false) ran; rejected: the error
\* left the handler.
settleTrustingStatus(outcome) ==
    IF outcome # "throw"
    THEN [status |-> "success", reset |-> TRUE, posts |-> 0, cleanup |-> TRUE,
          rejected |-> FALSE]
    ELSE [status |-> "error", reset |-> FALSE, posts |-> 0, cleanup |-> TRUE,
          rejected |-> FALSE]

settleNoFinally(outcome) ==
    IF outcome = "2xx"
    THEN [status |-> "success", reset |-> TRUE, posts |-> 0, cleanup |-> TRUE,
          rejected |-> FALSE]
    ELSE [status |-> "error", reset |-> FALSE, posts |-> 0, cleanup |-> FALSE,
          rejected |-> FALSE]

settleResetAlways(outcome) ==
    IF outcome = "2xx"
    THEN [status |-> "success", reset |-> TRUE, posts |-> 0, cleanup |-> TRUE,
          rejected |-> FALSE]
    ELSE [status |-> "error", reset |-> TRUE, posts |-> 0, cleanup |-> TRUE,
          rejected |-> FALSE]

settle(outcome) ==
    IF outcome = "2xx"
    THEN [status |-> "success", reset |-> TRUE, posts |-> 0, cleanup |-> TRUE,
          rejected |-> FALSE]
    ELSE [status |-> "error", reset |-> FALSE, posts |-> 0, cleanup |-> TRUE,
          rejected |-> FALSE]

\* The POST settles: fetch() resolves with a 2xx or another status, or rejects.
Respond(outcome) ==
    LET r == settle(outcome)
        btn == setFormLoading(FALSE)
    IN  /\ inflight > 0
        /\ SetStatus(showFormStatus(StatusNow,
                        IF r.status = "success" THEN MsgSuccess ELSE MsgFailure,
                        r.status))
        /\ fieldValue' = IF r.reset THEN [i \in Fields |-> ""] ELSE fieldValue
        /\ inflight' = inflight - 1 + r.posts
        /\ IF r.cleanup
           THEN btnLoading' = btn.loading /\ btnDisabled' = btn.disabled
           ELSE UNCHANGED <<btnLoading, btnDisabled>>
        /\ handlerRejected' = (handlerRejected \/ r.rejected)
        /\ formEvent' = outcome
        /\ formField' = 0
        /\ UNCHANGED <<ariaInvalid, errorText, errorOpacity>>

RespondAny == \E outcome \in Outcomes : Respond(outcome)

\* A 5 s timer of showFormStatus fires.
StatusTimerFire ==
    /\ statusTimers > 0
    /\ statusTimers' = statusTimers - 1
    /\ statusClass' = "form-status"
    /\ formEvent' = "statusTimer"
    /\ formField' = 0
    /\ UNCHANGED <<fieldValue, ariaInvalid, errorText, errorOpacity, btnLoading,
                   btnDisabled, statusText, inflight, handlerRejected>>

FormInit ==
    /\ fieldValue = [i \in Fields |-> ""]
    /\ ariaInvalid = [i \in Fields |-> "null"]
    /\ errorText = [i \in Fields |-> ""]
    /\ errorOpacity = [i \in Fields |-> ""]
    /\ btnLoading = FALSE
    /\ btnDisabled = FALSE
    /\ statusText = ""
    /\ statusClass = "form-status"
    /\ inflight = 0
    /\ statusTimers = 0
    /\ handlerRejected = FALSE
    /\ formEvent = "init"
    /\ formField = 0

(***************************************************************************)
(* Reveal on scroll                                                        *)
(***************************************************************************)

\* animated elements of the page, and the entries the observer may hold queued
NumAnimated == 2
MaxEntries == 3
Animated == 1 .. NumAnimated

\* The page scrolls: element e enters or leaves the observer's root.
ScrollInView(e) ==
    /\ inView' = [inView EXCEPT ![e] = ~@]
    /\ UNCHANGED <<elOpacity, elTransform, observed, prevIntersecting, ioQueue,
                   revealCount>>

ScrollInViewAny == \E e \in Animated : ScrollInView(e)

\* The targets whose intersection changed since the observer last computed it
\* ("none": never computed, so the first computation always reports).
RECURSIVE ChangedEntries(_)
ChangedEntries(e) ==
    IF e > NumAnimated THEN <<>>
    ELSE (IF e \in observed /\ prevIntersecting[e] # (IF inView[e] THEN "yes" ELSE "no")
          THEN <<[target |-> e, isIntersecting |-> inView[e]]>> ELSE <<>>)
         \o ChangedEntries(e + 1)

\* The browser's "update intersection observations" step.
UpdateIntersections ==
    LET new == ChangedEntries(1)
    IN  /\ new # <<>>
        /\ Len(ioQueue) + Len(new) <= MaxEntries
        /\ ioQueue' = ioQueue \o new
        /\ prevIntersecting' =
              [e \in Animated |->
                  IF e \in observed THEN (IF inView[e] THEN "yes" ELSE "no")
                  ELSE prevIntersecting[e]]
        /\ UNCHANGED <<elOpacity, elTransform, observed, inView, revealCount>>

RevealNow ==
    [opacity |-> elOpacity, transform |-> elTransform, observed |-> observed,
     prev |-> prevIntersecting, count |-> revealCount]

revealEntryKeepObserving(r, entry) ==
    IF entry.isIntersecting
    THEN [r EXCEPT !.opacity[entry.target] = "1",
                   !.transform[entry.target] = "translateY(0)",
                   !.count[entry.target] = @ + 1]
    ELSE r

\* The observer callback's body for one entry.
revealEntry(r, entry) ==
    IF entry.isIntersecting
    THEN [r EXCEPT !.opacity[entry.target] = "1",
                   !.transform[entry.target] = "translateY(0)",
                   !.observed = @ \ {entry.target},
                   !.prev[entry.target] = "none",
                   !.count[entry.target] = @ + 1]
    ELSE r

RECURSIVE revealEntries(_, _)
revealEntries(r, entries) ==
    IF entries = <<>> THEN r
    ELSE revealEntries(revealEntry(r, Head(entries)), Tail(entries))

\* The observer's callback is invoked with the queued entries.
DeliverEntries ==
    /\ ioQueue # <<>>
    /\ LET r == revealEntries(RevealNow, ioQueue)
       IN  /\ elOpacity' = r.opacity
           /\ elTransform' = r.transform
           /\ observed' = r.observed
           /\ prevIntersecting' = r.prev
           /\ revealCount' = r.count
    /\ ioQueue' = <<>>
    /\ UNCHANGED inView

\* After construction: every element hidden and observed.
RevealInitIn(views) ==
    /\ elOpacity = [e \in Animated |-> "0"]
    /\ elTransform = [e \in Animated |-> "translateY(30px)"]
    /\ observed = Animated
    /\ inView \in views
    /\ prevIntersecting = [e \in Animated |-> "none"]
    /\ ioQueue = <<>>
    /\ revealCount = [e \in Animated |-> 0]

(***************************************************************************)
(* Active navigation link                                                  *)
(***************************************************************************)

\* section[id] elements and .nav-link elements of the page, and the entries
\* the observer may hold queued beyond one per section
NumSections == 2
NumLinks == 4
MaxExtraEntries == 1
Sections == 1 .. NumSections
Links == 1 .. NumLinks

\* The section whose "#id" link l's href equals: links 2 and 3 point at
\* section 1, links 4 and 5 at section 2, and so on; link 1 (0) at none.
LinkHref(l) == IF l \div 2 \in Sections THEN l \div 2 ELSE 0

\* The page scrolls: section c enters or leaves the band of the viewport
\* that rootMargin '-20% 0px -60% 0px' leaves.
ScrollSection(c) ==
    /\ secInView' = [secInView EXCEPT ![c] = ~@]
    /\ UNCHANGED <<linkActive, secPrev, secQueue>>

ScrollSectionAny == \E c \in Sections : ScrollSection(c)

RECURSIVE ChangedSections(_)
ChangedSections(c) ==
    IF c > NumSections THEN <<>>
    ELSE (IF secPrev[c] # (IF secInView[c] THEN "yes" ELSE "no")
          THEN <<[target |-> c, isIntersecting |-> secInView[c]]>> ELSE <<>>)
         \o ChangedSections(c + 1)

\* The browser's "update intersection observations" step for the sections.
UpdateSections ==
    LET new == ChangedSections(1)
    IN  /\ new # <<>>
        /\ Len(secQueue) + Len(new) <= NumSections + MaxExtraEntries
        /\ secQueue' = secQueue \o new
        /\ secPrev' = [c \in Sections |-> IF secInView[c] THEN "yes" ELSE "no"]
        /\ UNCHANGED <<linkActive, secInView>>

activateLinkKeepOthers(active, id) ==
    [l \in Links |-> active[l] \/ LinkHref(l) = id]

\* navLinks.forEach of the callback, for the section with this id.
activateLink(active, id) == [l \in Links |-> LinkHref(l) = id]

RECURSIVE sectionEntries(_, _)
sectionEntries(active, entries) ==
    IF entries = <<>> THEN active
    ELSE sectionEntries(IF Head(entries).isIntersecting
                        THEN activateLink(active, Head(entries).target)
                        ELSE active,
                        Tail(entries))

\* The observer's callback is invoked with the queued entries.
DeliverSections ==
    /\ secQueue # <<>>
    /\ linkActive' = sectionEntries(linkActive, secQueue)
    /\ secQueue' = <<>>
    /\ UNCHANGED <<secInView, secPrev>>

\* After construction: every section observed; the markup marks at most one
\* link active.
SectionInitIn(views, marked) ==
    /\ linkActive \in {[l \in Links |-> l = k] : k \in marked}
    /\ secInView \in views
    /\ secPrev = [c \in Sections |-> "none"]
    /\ secQueue = <<>>

(***************************************************************************)
(* Specifications, one per behaviour group; the groups share no state.     *)
(***************************************************************************)

NavInit == NavInitIn({"null", "false"}, Widths)
NavAtRest == NavInitIn({"false"}, {MobileBreakpoint})
FrameInit == FrameInitIn(ScrollPositions)
FrameAtRest == FrameInitIn({0})
RevealInit == RevealInitIn([Animated -> BOOLEAN])
RevealAtRest == RevealInitIn({[e \in Animated |-> FALSE]})
SectionInit == SectionInitIn([Sections -> BOOLEAN], 0 .. NumLinks)
SectionAtRest == SectionInitIn({[c \in Sections |-> FALSE]}, {0})

InitNav == NavInit /\ FrameAtRest /\ FormInit /\ RevealAtRest /\ SectionAtRest
InitNavMissing ==
    /\ NavInitOn(SUBSET NavElements, {"null", "false"}, Widths)
    /\ FrameAtRest /\ FormInit /\ RevealAtRest /\ SectionAtRest
InitFrame == NavAtRest /\ FrameInit /\ FormInit /\ RevealAtRest /\ SectionAtRest
InitForm == NavAtRest /\ FrameAtRest /\ FormInit /\ RevealAtRest /\ SectionAtRest
InitReveal == NavAtRest /\ FrameAtRest /\ FormInit /\ RevealInit /\ SectionAtRest
InitSections == NavAtRest /\ FrameAtRest /\ FormInit /\ RevealAtRest /\ SectionInit

NextNav ==
    \/ ClickAny /\ UNCHANGED <<headerVars, rafVars, parallaxVars, formVars, revealVars, sectionVars>>
    \/ KeyDownAny /\ UNCHANGED <<headerVars, rafVars, parallaxVars, formVars, revealVars, sectionVars>>
    \/ ResizeAny /\ UNCHANGED <<headerVars, rafVars, parallaxVars, formVars, revealVars, sectionVars>>
    \/ ResizeTimerFire /\ UNCHANGED <<headerVars, rafVars, parallaxVars, formVars, revealVars, sectionVars>>

NextFrame ==
    \/ ScrollAny /\ UNCHANGED <<navVars, formVars, revealVars, sectionVars>>
    \/ AnimationFrame /\ UNCHANGED <<navVars, formVars, revealVars, sectionVars>>
    \/ MouseMoveAny /\ UNCHANGED <<navVars, formVars, revealVars, sectionVars>>
    \/ MouseEnter /\ UNCHANGED <<navVars, formVars, revealVars, sectionVars>>
    \/ MouseLeave /\ UNCHANGED <<navVars, formVars, revealVars, sectionVars>>

NextForm ==
    \/ BlurAny /\ UNCHANGED <<navVars, headerVars, rafVars, parallaxVars, revealVars, sectionVars>>
    \/ InputAny /\ UNCHANGED <<navVars, headerVars, rafVars, parallaxVars, revealVars, sectionVars>>
    \/ Submit /\ UNCHANGED <<navVars, headerVars, rafVars, parallaxVars, revealVars, sectionVars>>
    \/ RespondAny /\ UNCHANGED <<navVars, headerVars, rafVars, parallaxVars, revealVars, sectionVars>>
    \/ StatusTimerFire /\ UNCHANGED <<navVars, headerVars, rafVars, parallaxVars, revealVars, sectionVars>>

NextReveal ==
    \/ ScrollInViewAny /\ UNCHANGED <<navVars, headerVars, rafVars, parallaxVars, formVars, sectionVars>>
    \/ UpdateIntersections /\ UNCHANGED <<navVars, headerVars, rafVars, parallaxVars, formVars, sectionVars>>
    \/ DeliverEntries /\ UNCHANGED <<navVars, headerVars, rafVars, parallaxVars, formVars, sectionVars>>

NextSections ==
    \/ ScrollSectionAny /\ UNCHANGED <<navVars, headerVars, rafVars, parallaxVars, formVars, revealVars>>
    \/ UpdateSections /\ UNCHANGED <<navVars, headerVars, rafVars, parallaxVars, formVars, revealVars>>
    \/ DeliverSections /\ UNCHANGED <<navVars, headerVars, rafVars, parallaxVars, formVars, revealVars>>

SpecSections == InitSections /\ [][NextSections]_vars
SpecNavMissing == InitNavMissing /\ [][NextNav]_vars
SpecNav == InitNav /\ [][NextNav]_vars
SpecFrame == InitFrame /\ [][NextFrame]_vars
SpecForm == InitForm /\ [][NextForm]_vars
SpecReveal == InitReveal /\ [][NextReveal]_vars

\* The browser settles every fetch() and runs every callback it has queued.
SpecFormFair == SpecForm /\ WF_formVars(RespondAny) /\ WF_formVars(StatusTimerFire)

(***************************************************************************)
(* Properties                                                              *)
(***************************************************************************)

MenuOpen == ariaExpanded = "true" /\ menuActive /\ bodyOverflow = "hidden"
MenuClosed == ariaExpanded = "false" /\ ~menuActive /\ bodyOverflow = ""

\* The last event was one of the three dismissals: a click on a nav link, a
\* click outside both the toggle and the menu panel, an Escape keydown.
Dismissal ==
    \/ navEvent = "click" /\ ~navTarget.toggle /\ (navTarget.navLink \/ ~navTarget.inMenu)
    \/ navEvent = "escape"

\* C1: in every reachable state the three mirrors of the menu state agree:
\* aria-expanded is "true" iff the menu panel is active iff body overflow is
\* "hidden".
C1_MirrorsAgree ==
    /\ (ariaExpanded = "true") <=> menuActive
    /\ menuActive <=> (bodyOverflow = "hidden")

\* The menu is open while a debounced resize is pending.
C1_Witness == MenuOpen /\ resizeTimers # {} /\ navEvent = "click"

\* C2: a toggle click on a closed menu opens it (aria-expanded true, panel
\* active, scroll locked); from the open state a nav-link click, an outside
\* click and an Escape keydown each lead to aria-expanded false, scroll
\* unlocked, panel not active.
C2_OpenThenDismiss ==
    [][/\ (~menuActive /\ ariaExpanded # "true" /\ bodyOverflow = ""
            /\ navEvent' = "click" /\ navTarget'.toggle) => MenuOpen'
       /\ (MenuOpen /\ Dismissal') => MenuClosed']_vars

\* An Escape keydown has just closed the open menu.
C2_Witness == navEvent = "escape" /\ navWrites = MenuProps /\ MenuClosed

\* C3: a dismissal event received while the menu is closed writes none of
\* aria-expanded, the panel's class list and body overflow.
C3_NoWriteWhenClosed ==
    [][(~menuActive /\ Dismissal') => navWrites' = {}]_vars

InvalidFields == {i \in Fields : ~validityValid(FieldType(i), fieldValue[i])}

StatusIs(message, class) == statusText = message /\ statusClass = class

\* C4: a submit with an invalid required field validates every field (each
\* invalid one is marked with its message, each valid one cleared), shows
\* "Please fix the errors above" as an error status, issues no POST and leaves
\* the submit control as it was.
C4_InvalidSubmitAborts ==
    [][(formEvent' = "submit" /\ InvalidFields # {}) =>
          /\ \A i \in InvalidFields :
                /\ ariaInvalid'[i] = "true"
                /\ errorOpacity'[i] = "1"
                /\ errorText'[i] = validationMessage(FieldType(i), fieldValue[i])
          /\ \A i \in Fields \ InvalidFields :
                ariaInvalid'[i] = "false" /\ errorOpacity'[i] = "0"
          /\ StatusIs(MsgFixErrors, "form-status error")'
          /\ inflight' = inflight
          /\ UNCHANGED <<btnLoading, btnDisabled, statusTimers, fieldValue>>]_vars

\* A submit was aborted with one field marked invalid and another cleared.
C4_Witness ==
    /\ formEvent = "submit"
    /\ StatusIs(MsgFixErrors, "form-status error")
    /\ \E i, j \in Fields : ariaInvalid[i] = "true" /\ ariaInvalid[j] = "false"
    /\ inflight = 0 /\ ~btnLoading /\ ~btnDisabled

\* C5: a submit with every required field valid issues exactly one POST and
\* nothing else issues one; a 2xx response shows the success status and resets
\* every field value; a non-2xx response and a transport error both show the
\* fallback error status; no outcome leaves the handler as a rejection.
C5_SinglePostAndOutcome ==
    [][/\ (formEvent' = "submit" /\ InvalidFields = {}) => inflight' = inflight + 1
       /\ formEvent' # "submit" => inflight' <= inflight
       /\ formEvent' \in Outcomes => inflight' = inflight - 1
       /\ formEvent' = "2xx" =>
             /\ StatusIs(MsgSuccess, "form-status success")'
             /\ fieldValue' = [i \in Fields |-> ""]
       /\ formEvent' \in {"non2xx", "throw"} =>
             StatusIs(MsgFailure, "form-status error")'
       /\ ~handlerRejected']_vars

\* A 2xx response has arrived for the only POST: success shown, fields reset.
C5_Witness ==
    /\ formEvent = "2xx"
    /\ StatusIs(MsgSuccess, "form-status success")
    /\ fieldValue = [i \in Fields |-> ""]
    /\ inflight = 0

\* C6: when a POST settles, on the success path and on the failure path alike,
\* the submit control is enabled and not loading; and a submit control that
\* is loading is eventually enabled and not loading.
C6_LoadingCleared ==
    /\ [][formEvent' \in Outcomes => (~btnLoading' /\ ~btnDisabled')]_vars
    /\ (btnLoading /\ btnDisabled) ~> (~btnLoading /\ ~btnDisabled)

\* A POST has failed and the submit control is enabled again.
C6_Witness ==
    /\ formEvent \in {"non2xx", "throw"}
    /\ StatusIs(MsgFailure, "form-status error")
    /\ ~btnLoading /\ ~btnDisabled

HeaderPending == Cardinality(Pending(rafQueue, "updateHeader"))
ParallaxPending == Cardinality(Pending(rafQueue, "updateParallax"))

\* C7: at most one header-update callback is pending, ticking is true exactly
\* while one is pending, and an animation frame updates the header at most
\* once.
C7_OneHeaderUpdatePending ==
    /\ HeaderPending <= 1
    /\ ticking <=> HeaderPending = 1
    /\ frameRuns.header <= 1

\* A scroll event arrived while the header update requested by an earlier one
\* was still pending (a parallax request was made in between).
C7_Witness ==
    /\ frameEvent = "scroll"
    /\ Len(rafQueue) = 2
    /\ rafQueue[1].cb = "updateHeader"
    /\ rafQueue[2].cb = "updateParallax"
    /\ scrollY # lastScrollY

\* C8: once a header update has run and none is pending, the header carries
\* "scrolled" iff window.scrollY is above 100, whatever the direction of the
\* scroll.
C8_ScrolledIffPastThreshold ==
    (~ticking /\ headerTransform # "") =>
        (headerScrolled <=> scrollY > ScrollThreshold)

\* After scrolling up to an offset still past the threshold the header is
\* shown and still "scrolled".
C8_Witness ==
    /\ frameEvent = "frame"
    /\ ~ticking
    /\ headerScrolled
    /\ headerTransform = "translateY(0)"
    /\ scrollY > ScrollThreshold

AllTransformsEmpty ==
    /\ \A i \in Orbs : orbTransform[i] = NoTransform
    /\ \A i \in Cubes : cubeTransform[i] = NoTransform

\* C9: at most one parallax callback is pending; while the pointer is outside
\* the hero (after a leave, until the next enter) none is pending, no frame
\* runs one, and every orb and cube transform is empty.
C9_ParallaxLoop ==
    /\ ParallaxPending <= 1
    /\ ~pointerInside =>
          /\ ParallaxPending = 0
          /\ rafId = 0
          /\ AllTransformsEmpty
          /\ frameEvent = "frame" => frameRuns.parallax = 0

\* The pointer has left and a frame has run since (a header update), after
\* the pointer had moved over the hero.
C9_Witness ==
    /\ ~pointerInside
    /\ frameEvent = "frame"
    /\ frameRuns.header = 1
    /\ mouseX # 0

Revealed(e) == elOpacity[e] = "1" /\ elTransform[e] = "translateY(0)"
Hidden(e) == elOpacity[e] = "0" /\ elTransform[e] = "translateY(30px)"

Reports(q, e) == \E k \in DOMAIN q : q[k].target = e /\ q[k].isIntersecting

\* C10: every element starts hidden; a callback that reports an element
\* intersecting leaves it visible and unobserved, and changes no element it
\* does not report; a visible element stays visible and unobserved and its
\* style is never written again.
C10_RevealOnce ==
    /\ \A e \in Animated : Hidden(e)
    /\ [][\A e \in Animated :
             /\ (ioQueue # <<>> /\ ioQueue' = <<>> /\ Reports(ioQueue, e)) =>
                   (Revealed(e)' /\ e \notin observed')
             /\ (Hidden(e) /\ ~(ioQueue' = <<>> /\ Reports(ioQueue, e))) =>
                   (Hidden(e)' /\ revealCount'[e] = 0)
             /\ Revealed(e) =>
                   /\ Revealed(e)'
                   /\ revealCount'[e] = revealCount[e]
                   /\ e \notin observed']_vars

\* An element was revealed and has since been scrolled out of view, while the
\* observer has reported another element, still hidden, as not intersecting.
C10_Witness ==
    \E e, o \in Animated :
        /\ Revealed(e) /\ revealCount[e] = 1 /\ ~inView[e] /\ e \notin observed
        /\ Hidden(o) /\ prevIntersecting[o] = "no" /\ ioQueue = <<>>

\* C11: a blur on an empty required field shows "This field is required" and
\* sets aria-invalid to true; an input event on a field hides its message and
\* sets aria-invalid to false whatever the new value is, valid or not, and
\* leaves the message text as it was.
C11_BlurMarksInputClears ==
    [][\A i \in Fields :
          /\ (formEvent' = "blur" /\ formField' = i /\ fieldValue[i] = "") =>
                /\ errorText'[i] = MsgRequired
                /\ errorOpacity'[i] = "1"
                /\ ariaInvalid'[i] = "true"
          /\ (formEvent' = "input" /\ formField' = i) =>
                /\ errorOpacity'[i] = "0"
                /\ ariaInvalid'[i] = "false"
                /\ errorText'[i] = errorText[i]]_vars

\* A field was marked as required on blur, and typing a value that is still
\* invalid has cleared the marker.
C11_Witness ==
    \E i \in Fields :
        /\ formEvent = "input" /\ formField = i
        /\ ~validityValid(FieldType(i), fieldValue[i])
        /\ fieldValue[i] # ""
        /\ errorText[i] = MsgRequired
        /\ errorOpacity[i] = "0"
        /\ ariaInvalid[i] = "false"

\* C12: whichever of the navigation elements are absent, no listener raises
\* an error.
C12_NoListenerThrows == ~threw

\* C13: at most one resize timer is pending, and it is the one resizeTimeout
\* holds; a resize event cancels the timer of the event before it; when the
\* timer fires no timer is left, so a burst is handled once, after its last
\* event, and with a viewport wider than 768px the menu is then closed.
C13_ResizeDebounced ==
    /\ [](Cardinality(resizeTimers) <= 1 /\ resizeTimers \subseteq {resizeTimeout})
    /\ [][/\ navEvent' = "resize" =>
                (resizeTimers' = {resizeTimeout'} /\ resizeTimeout \notin resizeTimers')
          /\ navEvent' = "resizeTimer" =>
                /\ resizeTimers' = {}
                /\ innerWidth > MobileBreakpoint => MenuClosed']_vars

\* The timer of the second resize event of a burst has fired on a wide
\* viewport: the menu is closed and no timer is left.
C13_Witness ==
    /\ navEvent = "resizeTimer"
    /\ resizeTimeout = 2
    /\ resizeTimers = {}
    /\ innerWidth > MobileBreakpoint
    /\ navWrites = MenuProps
    /\ MenuClosed

HeaderUpdated == frameEvent = "frame" /\ frameRuns.header = 1

\* C14: a header update translates the header out of view iff the offset it
\* reads is above the offset read by the previous update (or at setup) and
\* above 100, and into view otherwise; it then remembers the offset it read.
\* Only a header update changes the remembered offset and the translation.
C14_HideOnScrollDown ==
    [][/\ HeaderUpdated' =>
             /\ headerTransform' =
                   IF scrollY > lastScrollY /\ scrollY > ScrollThreshold
                   THEN "translateY(-100%)" ELSE "translateY(0)"
             /\ lastScrollY' = scrollY
       /\ (lastScrollY' # lastScrollY \/ headerTransform' # headerTransform) =>
             HeaderUpdated']_vars

\* A header update has hidden the header after a scroll down past the
\* threshold.
C14_Witness ==
    /\ HeaderUpdated
    /\ headerTransform = "translateY(-100%)"
    /\ scrollY > ScrollThreshold
    /\ lastScrollY = scrollY
    /\ ~ticking

\* The section of the last intersecting entry of q (0: none intersects).
RECURSIVE LastIntersecting(_)
LastIntersecting(q) ==
    IF q = <<>> THEN 0
    ELSE IF q[Len(q)].isIntersecting THEN q[Len(q)].target
    ELSE LastIntersecting(SubSeq(q, 1, Len(q) - 1))

ActiveSections == {LinkHref(l) : l \in {k \in Links : linkActive[k]}}

\* C15: the active links never point at more than one section; a callback
\* with an intersecting entry leaves active exactly the links whose href is
\* "#" + id of its last intersecting section, and a callback without one
\* leaves the markers as they were.
C15_LastIntersectingWins ==
    /\ [](Cardinality(ActiveSections) <= 1)
    /\ [][(secQueue # <<>> /\ secQueue' = <<>>) =>
             linkActive' =
                IF LastIntersecting(secQueue) = 0 THEN linkActive
                ELSE [l \in Links |-> LinkHref(l) = LastIntersecting(secQueue)]]_vars

\* Both sections have been reported intersecting and the links of section 2,
\* reported last, are the active ones; the links of section 1 are not.
C15_Witness ==
    /\ secQueue = <<>>
    /\ secPrev[1] = "yes" /\ secPrev[2] = "yes"
    /\ \A l \in Links : linkActive[l] <=> LinkHref(l) = 2
    /\ \E l \in Links : LinkHref(l) = 1

\* The last event was a click on (or in) an anchor with this href, outside the
\* toggle.
AnchorClicked(href) ==
    navEvent = "click" /\ ~navTarget.toggle /\ navTarget.href = href

\* C16: a click on an in-page anchor whose target exists prevents the default
\* jump, leaves the menu closed (closing it if it was open) and requests
\* exactly one scroll, to target top - header height - 20; a click on an
\* anchor with the bare "#" or with a missing target requests no scroll and
\* does not prevent the default action.
C16_AnchorClick ==
    [][/\ AnchorClicked("#section")' =>
             /\ defaultPrevented'
             /\ ~menuActive'
             /\ menuActive => MenuClosed'
             /\ scrollToCalls' =
                   <<navLayout'.offsetTop - navLayout'.headerHeight - ScrollMargin>>
       /\ (AnchorClicked("#")' \/ AnchorClicked("#missing")') =>
             /\ ~defaultPrevented'
             /\ scrollToCalls' = <<>>]_vars

\* An anchor inside the open menu panel that is no .nav-link was clicked: the
\* anchor listener itself closed the menu and requested the scroll.
C16_Witness ==
    /\ AnchorClicked("#section")
    /\ navTarget.inMenu /\ ~navTarget.navLink
    /\ navWrites = MenuProps /\ MenuClosed
    /\ defaultPrevented
    /\ navLayout.offsetTop > navLayout.headerHeight /\ navLayout.headerHeight > 0
    /\ scrollToCalls =
          <<navLayout.offsetTop - navLayout.headerHeight - ScrollMargin>>

\* C17: a successful submission shows the success status and schedules one
\* timer; a timer that fires resets the status region's class to
\* "form-status", and the timer scheduled by a success does fire; a
\* validation-failure status and an error status schedule no timer.
C17_SuccessAutoClears ==
    /\ [][/\ formEvent' = "2xx" =>
                /\ StatusIs(MsgSuccess, "form-status success")'
                /\ statusTimers' = statusTimers + 1
          /\ formEvent' = "statusTimer" =>
                /\ statusTimers > 0
                /\ statusTimers' = statusTimers - 1
                /\ statusClass' = "form-status"
          /\ formEvent' \in {"submit", "non2xx", "throw"} =>
                statusTimers' = statusTimers]_vars
    /\ (formEvent = "2xx") ~>
          (formEvent = "statusTimer" /\ statusClass = "form-status")

\* The only timer, scheduled by a success, has fired: the success text is
\* still there and the class is the neutral one.
C17_Witness ==
    /\ formEvent = "statusTimer"
    /\ statusText = MsgSuccess
    /\ statusClass = "form-status"
    /\ statusTimers = 0 /\ inflight = 0

\* C18: an error status stays displayed until the next submit event: no
\* status timer left over from an earlier success removes the "error" marker.
C18_ErrorStatusStays ==
    [][(statusClass = "form-status error" /\ formEvent' = "statusTimer") =>
          statusClass' = "form-status error"]_vars

\* C19: whenever at least one POST is in flight the submit control is
\* disabled and carries the "loading" class.
C19_LoadingWhileInFlight == inflight > 0 => (btnLoading /\ btnDisabled)

\* C20: field values are reset only on the success path: a submit event
\* (aborted by validation or not), a non-2xx response and a transport error
\* leave every field value as entered, and only the user's input or a 2xx
\* response changes a value.
C20_ResetOnlyOnSuccess ==
    [][/\ formEvent' \in {"submit", "non2xx", "throw"} => fieldValue' = fieldValue
       /\ fieldValue' # fieldValue => formEvent' \in {"input", "2xx"}]_vars

\* A POST of a validly filled form has failed and the values are still there.
C20_Witness ==
    /\ formEvent \in {"non2xx", "throw"}
    /\ InvalidFields = {}
    /\ \A i \in Fields : fieldValue[i] # ""
    /\ StatusIs(MsgFailure, "form-status error")
    /\ inflight = 0

====
